---- MODULE Spec2Model ----
(***************************************************************************)
(* Model of src/app.py: a Streamlit script that crawls a web page or takes *)
(* typed text, cleans and segments it (jieba), and builds a word-frequency *)
(* table.                                                                  *)
(*                                                                         *)
(* A text is a sequence of characters; a character is a one-element name:  *)
(*   "shou" "ye" "xin" "wen"      sample CJK ideographs (U+4E00..U+9FA5)   *)
(*   "de" "le" ...                the 16 ideographs of the stop-word table *)
(*   "1" "2" "3"                  decimal digits                           *)
(*   "-" "/"                      the date separators of the digit regex   *)
(*   "A" "B" "C" "x"              Latin letters                            *)
(*   " " "NL"                     whitespace (blank, newline)              *)
(***************************************************************************)
EXTENDS Integers, Sequences, FiniteSets, TLC

VARIABLES
    pc,            \* position of the running script / harness
    input_mode,    \* st.radio "input_mode"
    url_input,     \* st.text_input "url_input"
    text_input,    \* st.text_area "text_input"
    crawled_text,  \* st.session_state.crawled_text
    text_origin,   \* who wrote crawled_text last: "init", "manual", "crawl", "except"
    retry,         \* loop variable of the retry loop
    get_log,       \* outcomes of the requests.get calls of the current crawl
    response,      \* the response object of the successful GET
    exc,           \* exception in flight inside crawl_webpage
    enc_idx,       \* position in the encodings list
    content,       \* local variable content of crawl_webpage
    soup,          \* the parsed document after the decompose loop
    ret,           \* value returned by the last crawl_webpage call
    message,       \* last st.warning / st.error / preview shown by the script
    crawl_status,  \* outcome of the last crawl_webpage call
    jieba_dict,    \* dictionary loaded by the segmenter
    lcut_calls,    \* arguments of the jieba.lcut calls of the last preprocess_text
    analysed,      \* text_source and its origin at the last analyze click
    cleaned,       \* text after the three re.sub steps of preprocess_text
    recleaned,     \* the cleaning steps applied to cleaned once more
    words,         \* token list returned by preprocess_text
    word_count,    \* Counter(words[:5000]) as a sequence of [token, count]
    top_n          \* word_count.most_common(...)

vars == <<pc, input_mode, url_input, text_input, crawled_text, text_origin,
          retry, get_log, response, exc, enc_idx, content, soup, ret,
          message, crawl_status, jieba_dict, lcut_calls, analysed, cleaned, recleaned,
          words, word_count, top_n>>

----------------------------------------------------------------------------
(* Characters and character classes                                        *)

SampleChinese == {"shou", "ye", "xin", "wen"}

StopChars == {"de", "le", "shi", "zai", "he", "you", "dou", "er",
              "ji", "yu", "zhi", "yu2", "ye3", "hai", "zhe", "na"}

Chinese == SampleChinese \cup StopChars

Digits == {"1", "2", "3"}

DateSeps == {"-", "/"}

Whitespace == {" ", "NL"}

IsChinese(c) == c \in Chinese

IsDigit(c) == c \in Digits

Min(a, b) == IF a < b THEN a ELSE b

\* u repeated n times
Rep(u, n) == [i \in 1..(n * Len(u)) |-> u[((i - 1) % Len(u)) + 1]]

\* text[:n] (Python slice)
Take(text, n) == SubSeq(text, 1, Min(n, Len(text)))

----------------------------------------------------------------------------
(* preprocess_text, step 1: re.sub(r"\d+[-/]\d+[-/]\d+|\d+", "", text)      *)

\* index just after the maximal run of digits starting at i (i if none)
RECURSIVE DigitRunEnd(_, _)
DigitRunEnd(text, i) ==
    IF i <= Len(text) /\ IsDigit(text[i]) THEN DigitRunEnd(text, i + 1) ELSE i

\* index just after the match of \d+[-/]\d+[-/]\d+|\d+ at i; i if no match
DigitMatchEnd(text, i) ==
    LET e1 == DigitRunEnd(text, i)
        e2 == IF e1 > i /\ e1 <= Len(text) /\ text[e1] \in DateSeps
              THEN DigitRunEnd(text, e1 + 1) ELSE e1
        e3 == IF e2 > e1 + 1 /\ e2 <= Len(text) /\ text[e2] \in DateSeps
              THEN DigitRunEnd(text, e2 + 1) ELSE e2
    IN  IF e2 > e1 + 1 /\ e3 > e2 + 1 THEN e3 ELSE e1

RECURSIVE RemoveDigitsFrom(_, _)
RemoveDigitsFrom(text, i) ==
    IF i > Len(text) THEN <<>>
    ELSE LET e == DigitMatchEnd(text, i)
         IN  IF e > i THEN RemoveDigitsFrom(text, e)
             ELSE <<text[i]>> \o RemoveDigitsFrom(text, i + 1)

RemoveDigits(text) == RemoveDigitsFrom(text, 1)

(* step 2: re.sub(r"[^\u4e00-\u9fa5]", "", text)                          *)
KeepChinese(text) == SelectSeq(text, IsChinese)

(* step 3: re.sub(r"(.{2,5})\1{3,}", r"\1", text)                           *)

\* text[i..i+k-1] = text[j..j+k-1], both inside the text
SameBlock(text, i, j, k) ==
    /\ j + k - 1 <= Len(text)
    /\ \A d \in 0..(k - 1) : text[i + d] = text[j + d]

\* number of consecutive copies of the group text[i..i+k-1] starting at j
RECURSIVE Copies(_, _, _, _)
Copies(text, i, j, k) ==
    IF SameBlock(text, i, j, k) THEN 1 + Copies(text, i, j + k, k) ELSE 0

MinGroup == 2

MaxGroup == 5

MinBackrefs == 3

\* a group of k characters at i followed by at least 3 copies of itself
GroupMatches(text, i, k) ==
    /\ i + k - 1 <= Len(text)
    /\ Copies(text, i, i + k, k) >= MinBackrefs

\* group length chosen by the regex engine at i: .{2,5} is greedy, so the
\* longest group that lets the back-reference succeed; 0 if no match at i
GroupLen(text, i) ==
    LET ks == {k \in MinGroup..MaxGroup : GroupMatches(text, i, k)}
    IN  IF ks = {} THEN 0 ELSE CHOOSE k \in ks : \A m \in ks : m <= k

RECURSIVE CollapseFrom(_, _)
CollapseFrom(text, i) ==
    IF i > Len(text) THEN <<>>
    ELSE LET k == GroupLen(text, i)
         IN  IF k = 0 THEN <<text[i]>> \o CollapseFrom(text, i + 1)
             ELSE SubSeq(text, i, i + k - 1)
                  \o CollapseFrom(text, i + k * (1 + Copies(text, i, i + k, k)))

CollapseRepeats(text) == CollapseFrom(text, 1)

\* lines 129-133 of preprocess_text
Clean(text) == CollapseRepeats(KeepChinese(RemoveDigits(text)))

----------------------------------------------------------------------------
(* preprocess_text, lines 142-154: segmentation and filtering              *)

\* a word is a text; the stop-word table holds 16 one-character words
stop_words == {<<c>> : c \in StopChars}

MinTextLen == 10

MinTokenLen == 2

\* str.strip(): drop leading and trailing whitespace
RECURSIVE LStrip(_)
LStrip(text) ==
    IF text # <<>> /\ Head(text) \in Whitespace THEN LStrip(Tail(text)) ELSE text

RECURSIVE RStrip(_)
RStrip(text) ==
    IF text # <<>> /\ text[Len(text)] \in Whitespace
    THEN RStrip(SubSeq(text, 1, Len(text) - 1)) ELSE text

Strip(text) == RStrip(LStrip(text))

\* jieba.lcut: the segmenter is an external library; it is modelled as
\* longest-match segmentation against the loaded dictionary, unknown
\* characters becoming one-character words. The pieces concatenate to text.
WordLenAt(text, i, dict) ==
    LET ks == {k \in 1..(Len(text) - i + 1) : SubSeq(text, i, i + k - 1) \in dict}
    IN  IF ks = {} THEN 1 ELSE CHOOSE k \in ks : \A m \in ks : m <= k

RECURSIVE LcutFrom(_, _, _)
LcutFrom(text, i, dict) ==
    IF i > Len(text) THEN <<>>
    ELSE LET k == WordLenAt(text, i, dict)
         IN  <<SubSeq(text, i, i + k - 1)>> \o LcutFrom(text, i + k, dict)

lcut(text, dict) == LcutFrom(text, 1, dict)

\* words of exactly the minimum length are dropped too
KeepLongerWord(word) == word \notin stop_words /\ Len(word) > MinTokenLen

\* line 148: the condition of the first list comprehension
KeepWord(word) == word \notin stop_words /\ Len(word) >= MinTokenLen

\* lines 148-149: the two list comprehensions
FilterWords(ws) ==
    SelectSeq(SelectSeq(ws, KeepWord), LAMBDA word : Strip(word) # <<>>)

\* preprocess_text(text): the returned words and the arguments of the
\* jieba.lcut calls it made (none on the two early returns)
preprocess_text(text, dict) ==
    IF Len(text) < MinTextLen
    THEN [words |-> <<>>, lcut_calls |-> <<>>]
    ELSE LET c == Clean(text)
         IN  IF c = <<>>
             THEN [words |-> <<>>, lcut_calls |-> <<>>]
             ELSE [words |-> FilterWords(lcut(c, dict)), lcut_calls |-> <<c>>]

----------------------------------------------------------------------------
(* analyze handler, lines 233-234: Counter and most_common                 *)

MaxTokens == 5000

TopN == 20

\* occurrences of t in tokens, the first token not counted
CountOfRest(tokens, t) == Cardinality({i \in DOMAIN tokens \ {1} : tokens[i] = t})

\* number of occurrences of t in tokens
CountOf(tokens, t) == Cardinality({i \in DOMAIN tokens : tokens[i] = t})

\* index of the first occurrence of t in tokens
FirstIndex(tokens, t) ==
    CHOOSE i \in DOMAIN tokens :
        tokens[i] = t /\ \A j \in 1..(i - 1) : tokens[j] # t

\* collections.Counter(tokens): one entry per distinct token, in order of
\* first insertion, with its number of occurrences
Counter(tokens) ==
    LET D     == {tokens[i] : i \in DOMAIN tokens}
        first == [t \in D |-> FirstIndex(tokens, t)]
        key   == [r \in 1..Cardinality(D) |->
                     CHOOSE t \in D :
                         Cardinality({u \in D : first[u] < first[t]}) = r - 1]
    IN  [r \in 1..Cardinality(D) |->
            [token |-> key[r], count |-> CountOf(tokens, key[r])]]

\* e goes behind the entries of equal count too
RankedBehindTies(e, other) == other.count >= e.count

\* e goes before the first entry whose count does not exceed its own
RankedBefore(e, other) == other.count > e.count

RECURSIVE InsertRanked(_, _)
InsertRanked(e, sorted) ==
    IF sorted # <<>> /\ RankedBefore(e, Head(sorted))
    THEN <<Head(sorted)>> \o InsertRanked(e, Tail(sorted))
    ELSE <<e>> \o sorted

\* sorted(items, key=itemgetter(1), reverse=True): stable, descending
RECURSIVE SortByCount(_)
SortByCount(entries) ==
    IF entries = <<>> THEN <<>>
    ELSE InsertRanked(Head(entries), SortByCount(Tail(entries)))

\* Counter.most_common(n)
most_common(wc, n) == Take(SortByCount(wc), n)

\* line 233
WordCount(ws) == Counter(Take(ws, MaxTokens))

\* line 234
TopWords(wc) == most_common(wc, Min(TopN, Len(wc)))

----------------------------------------------------------------------------
(* Values shared by the specifications                                     *)

NoResponse == [page |-> <<>>, decode |-> <<>>]

NoAnalysis == [text |-> <<>>, origin |-> "init", ran |-> FALSE]

\* dictionaries the segmenter may have loaded
DictWords == {<<"shou", "ye">>, <<"ye", "xin", "wen">>}

JiebaDicts == SUBSET DictWords

\* the crawl machinery at rest
CrawlAtRest ==
    /\ retry = 0
    /\ get_log = <<>>
    /\ response = NoResponse
    /\ exc = "none"
    /\ enc_idx = 0
    /\ content = <<>>
    /\ soup = <<>>
    /\ ret = <<>>
    /\ crawl_status = "none"

\* nothing analysed yet
NothingAnalysed ==
    /\ lcut_calls = <<>>
    /\ analysed = NoAnalysis
    /\ cleaned = <<>>
    /\ recleaned = <<>>
    /\ words = <<>>
    /\ word_count = <<>>
    /\ top_n = <<>>

\* the widgets of a harness that drives one function directly
NoWidgets ==
    /\ input_mode = "manual"
    /\ url_input = [scheme |-> "", rest |-> ""]
    /\ text_input = <<>>
    /\ message = "none"

crawl_vars == <<retry, get_log, response, exc, enc_idx, content, soup, ret, crawl_status>>

widget_vars == <<input_mode, url_input, text_input>>

----------------------------------------------------------------------------
(* SpecNorm: the cleaning steps of preprocess_text (lines 129-133) applied *)
(* to a text, and to their own result                                      *)

MaxRep == 7

NormUnits == {<<"shou">>, <<"shou", "ye">>, <<"xin", "wen">>}

NormPrefixes == {<<>>, <<"1", "-", "2", "-", "3", "x">>, <<"2", "/", "A", " ">>}

NormInputs ==
    {p \o Rep(u1, n1) \o Rep(u2, n2) :
        p \in NormPrefixes, u1 \in NormUnits, u2 \in NormUnits,
        n1 \in 0..MaxRep, n2 \in 0..MaxRep}

InitNorm ==
    /\ pc = "text"
    /\ crawled_text \in NormInputs
    /\ text_origin = "manual"
    /\ jieba_dict = {}
    /\ NoWidgets /\ CrawlAtRest /\ NothingAnalysed

NormalizeStep ==
    /\ pc = "text"
    /\ cleaned' = Clean(crawled_text)
    /\ pc' = "cleaned"
    /\ UNCHANGED <<crawled_text, text_origin, jieba_dict, lcut_calls, analysed,
                   recleaned, words, word_count, top_n, message>>
    /\ UNCHANGED crawl_vars /\ UNCHANGED widget_vars

RenormalizeStep ==
    /\ pc = "cleaned"
    /\ recleaned' = Clean(cleaned)
    /\ pc' = "recleaned"
    /\ UNCHANGED <<crawled_text, text_origin, jieba_dict, lcut_calls, analysed,
                   cleaned, words, word_count, top_n, message>>
    /\ UNCHANGED crawl_vars /\ UNCHANGED widget_vars

NextNorm == NormalizeStep \/ RenormalizeStep

SpecNorm == InitNorm /\ [][NextNorm]_vars

----------------------------------------------------------------------------
(* SpecTok: preprocess_text applied to a text                              *)

MaxCore == 4

TokChars == {"shou", "ye", "de"}

RECURSIVE TextsUpTo(_, _)
TextsUpTo(chars, n) ==
    IF n = 0 THEN {<<>>}
    ELSE LET shorter == TextsUpTo(chars, n - 1)
         IN  shorter \cup {<<c>> \o t : c \in chars, t \in {u \in shorter : Len(u) = n - 1}}

\* Latin padding: removed by the cleaning steps, counted by len(text)
TokPads == {<<>>, Rep(<<"x">>, MinTextLen)}

TokInputs == {t \o pad : t \in TextsUpTo(TokChars, MaxCore), pad \in TokPads}

InitTok ==
    /\ pc = "text"
    /\ crawled_text \in TokInputs
    /\ text_origin = "manual"
    /\ jieba_dict \in JiebaDicts
    /\ NoWidgets /\ CrawlAtRest /\ NothingAnalysed

PreprocessStep ==
    /\ pc = "text"
    /\ LET r == preprocess_text(crawled_text, jieba_dict)
       IN  /\ words' = r.words
           /\ lcut_calls' = r.lcut_calls
    /\ pc' = "words"
    /\ UNCHANGED <<crawled_text, text_origin, jieba_dict, analysed, cleaned,
                   recleaned, word_count, top_n, message>>
    /\ UNCHANGED crawl_vars /\ UNCHANGED widget_vars

NextTok == PreprocessStep

SpecTok == InitTok /\ [][NextTok]_vars

----------------------------------------------------------------------------
(* SpecAgg: lines 221-234 of the analyze handler applied to a token list   *)

MaxSeq == 4

MaxExtra == 2

\* the i-th of 64 three-character words
Ideograph(d) == CASE d = 0 -> "shou" [] d = 1 -> "ye" [] d = 2 -> "xin" [] OTHER -> "wen"

Word(i) == <<Ideograph((i \div 16) % 4), Ideograph((i \div 4) % 4), Ideograph(i % 4)>>

\* Word(1), ..., Word(k)
Distinct(k) == [i \in 1..k |-> Word(i)]

AggShort == TextsUpTo({Word(1), Word(2), Word(3)}, MaxSeq)

\* about TopN distinct words, then a few repeats of the first and last one
AggWide ==
    UNION {{Distinct(k) \o e : e \in TextsUpTo({Word(1), Word(k)}, MaxExtra)} :
              k \in (TopN - 1)..(TopN + 1)}

\* about MaxTokens copies of one word, then a few other words
AggLong ==
    {Rep(<<Word(1)>>, n) \o e :
        n \in (MaxTokens - 1)..(MaxTokens + 1),
        e \in TextsUpTo({Word(2), Word(3)}, MaxExtra)}

\* the token list A B A C B A
AggExample == <<Word(1), Word(2), Word(1), Word(3), Word(2), Word(1)>>

AggInputs == AggShort \cup AggWide \cup AggLong \cup {AggExample}

InitAgg ==
    /\ pc = "words"
    /\ words \in AggInputs
    /\ crawled_text = <<>>
    /\ text_origin = "manual"
    /\ jieba_dict = {}
    /\ lcut_calls = <<>>
    /\ analysed = NoAnalysis
    /\ cleaned = <<>>
    /\ recleaned = <<>>
    /\ word_count = <<>>
    /\ top_n = <<>>
    /\ NoWidgets /\ CrawlAtRest

\* line 221, true branch: nothing to count
NoWordsStep ==
    /\ pc = "words"
    /\ words = <<>>
    /\ message' = "warn_no_words"
    /\ pc' = "nowords"
    /\ UNCHANGED <<crawled_text, text_origin, jieba_dict, lcut_calls, analysed,
                   cleaned, recleaned, words, word_count, top_n>>
    /\ UNCHANGED crawl_vars /\ UNCHANGED widget_vars

\* lines 233-234
AggregateStep ==
    /\ pc = "words"
    /\ words # <<>>
    /\ word_count' = WordCount(words)
    /\ top_n' = TopWords(WordCount(words))
    /\ message' = "table"
    /\ pc' = "table"
    /\ UNCHANGED <<crawled_text, text_origin, jieba_dict, lcut_calls, analysed,
                   cleaned, recleaned, words>>
    /\ UNCHANGED crawl_vars /\ UNCHANGED widget_vars

NextAgg == NoWordsStep \/ AggregateStep

SpecAgg == InitAgg /\ [][NextAgg]_vars

----------------------------------------------------------------------------
(* crawl_webpage, lines 30-113                                             *)

MIN_VALID_LENGTH == 50

\* lines 34-35: complete the protocol when the user typed only a domain
CompleteUrl(url) ==
    IF url.scheme \in {"http://", "https://"} THEN url
    ELSE [scheme |-> "http://", rest |-> url.rest]

\* what one requests.get call can do: return a response or raise
GetFailures == {"Timeout", "ConnectionError", "InvalidURL", "Other"}

GetOutcomes == {"ok"} \cup GetFailures

\* line 47: for retry in range(2)
Attempts == 2

\* a failed GET is re-raised on the first retry already
LastRetryIsFirst(r) == r = 0

\* line 59: the retry on which a failed GET is re-raised
LastRetry(r) == r = 1

\* line 63
encodings == <<"utf-8", "gbk", "gb2312", "gb18030", "apparent_encoding">>

\* An element of a page: its tag, whether its class or id looks like
\* content (content|article|main|text|body|detail), and its text.
Elem(tag, like, text) == [tag |-> tag, content_like |-> like, text |-> text]

Headline == <<"shou", "ye", "xin", "wen">>

PageABC == <<Elem("p", FALSE, <<"A">>), Elem("p", FALSE, <<"B">>),
             Elem("p", FALSE, <<"C">>)>>

PageTiny == <<Elem("p", FALSE, <<"shou", "ye">>)>>

PageShort == <<Elem("div", FALSE, <<" ">> \o Headline \o <<" ", "NL">>),
               Elem("p", FALSE, Rep(<<"x">>, MinTextLen))>>

PageLong == <<Elem("nav", FALSE, <<"shou", "ye">>),
              Elem("script", FALSE, <<"x", "1">>),
              Elem("div", TRUE, Rep(Headline, 2) \o Rep(<<"x">>, MIN_VALID_LENGTH))>>

PageArticle == <<Elem("div", FALSE, <<"A", " ", " ", "B">>),
                 Elem("article", FALSE, Headline \o Rep(<<"1">>, MIN_VALID_LENGTH))>>

PageBlank == <<Elem("style", FALSE, <<"x">>), Elem("p", FALSE, <<" ", "NL">>)>>

Pages == {PageABC, PageTiny, PageShort, PageLong, PageArticle, PageBlank}

\* response.text under each candidate encoding: a non-empty string
\* ("text"), the empty string ("empty") or an exception ("exc")
DecodePatterns ==
    {<<"text", "text", "text", "text", "text">>,
     <<"exc", "text", "text", "text", "text">>,
     <<"empty", "exc", "empty", "text", "exc">>,
     <<"exc", "exc", "empty", "exc", "text">>,
     <<"empty", "empty", "empty", "empty", "empty">>,
     <<"exc", "exc", "exc", "exc", "exc">>,
     <<"exc", "empty", "exc", "empty", "exc">>}

Responses == [page : Pages, decode : DecodePatterns]

\* lines 75-76: drop script, style, iframe and noscript elements
Decompose(doc) ==
    SelectSeq(doc, LAMBDA e : e.tag \notin {"script", "style", "iframe", "noscript"})

\* pieces joined with sep
RECURSIVE Join(_, _)
Join(pieces, sep) ==
    IF pieces = <<>> THEN <<>>
    ELSE IF Len(pieces) = 1 THEN pieces[1]
    ELSE pieces[1] \o sep \o Join(Tail(pieces), sep)

\* the stripped, non-empty text pieces of a document
RECURSIVE StrippedPieces(_)
StrippedPieces(doc) ==
    IF doc = <<>> THEN <<>>
    ELSE LET t == Strip(Head(doc).text)
         IN  (IF t = <<>> THEN <<>> ELSE <<t>>) \o StrippedPieces(Tail(doc))

\* line 81: soup.get_text(separator=" ", strip=True)
GetText(doc) == Join(StrippedPieces(doc), <<" ">>)

\* line 83: re.sub(r"\s+", " ", all_text)
RECURSIVE CollapseWhitespace(_)
CollapseWhitespace(text) ==
    IF text = <<>> THEN <<>>
    ELSE IF Head(text) \in Whitespace
         THEN <<" ">> \o CollapseWhitespace(LStrip(text))
         ELSE <<Head(text)>> \o CollapseWhitespace(Tail(text))

\* lines 98-113: the message of the except clause that catches e
HandlerMessage(e) ==
    CASE e = "Timeout" -> "err_timeout"
      [] e = "ConnectionError" -> "err_connection"
      [] e = "InvalidURL" -> "err_invalid_url"
      [] OTHER -> "err_other"

\* an except clause that leaves the stored text alone
HandlerTextKept(old) == old

\* lines 100, 104, 108, 112: what every except clause stores
HandlerText(old) == <<>>

\* line 215
analyze_disabled == Strip(crawled_text) = <<>>

----------------------------------------------------------------------------
(* Spec: the script as the user drives it. Every widget interaction reruns *)
(* the script from the top; an action is one such run (crawl_webpage is    *)
(* split at its loops so that its attempts can be observed).               *)

Urls == {[scheme |-> "", rest |-> ""],
         [scheme |-> "", rest |-> "zpy.cstam.org.cn"],
         [scheme |-> "https://", rest |-> "www.baidu.com"]}

ManualTexts == {<<>>, <<" ", "NL">>, <<"shou", "ye">>,
                Rep(Headline \o <<"de">>, 2) \o <<"1", " ">>}

Init ==
    /\ pc = "idle"
    /\ input_mode = "manual"
    /\ url_input = [scheme |-> "", rest |-> ""]
    /\ text_input = <<>>
    /\ crawled_text = <<>>
    /\ text_origin = "init"
    /\ message = "none"
    /\ jieba_dict \in JiebaDicts
    /\ CrawlAtRest /\ NothingAnalysed

\* a rerun forgets the locals of the previous run
ForgetAnalysis ==
    /\ lcut_calls' = <<>>
    /\ analysed' = NoAnalysis
    /\ words' = <<>>
    /\ word_count' = <<>>
    /\ top_n' = <<>>
    /\ UNCHANGED <<cleaned, recleaned, jieba_dict>>

\* lines 185-199: the radio is switched; a widget that was not drawn in the
\* last run comes back with its old value or with its default
SelectMode(m) ==
    /\ pc = "idle"
    /\ input_mode # m
    /\ input_mode' = m
    /\ IF m = "manual"
       THEN /\ \E t \in {text_input, <<>>} :
                 /\ text_input' = t
                 /\ crawled_text' = t
            /\ text_origin' = "manual"
            /\ UNCHANGED url_input
       ELSE /\ \E u \in {url_input, [scheme |-> "", rest |-> ""]} : url_input' = u
            /\ UNCHANGED <<text_input, crawled_text, text_origin>>
    /\ message' = "none"
    /\ ForgetAnalysis
    /\ UNCHANGED <<pc>> /\ UNCHANGED crawl_vars

\* lines 193-199: the user edits the text area
TypeText(t) ==
    /\ pc = "idle"
    /\ input_mode = "manual"
    /\ text_input' = t
    /\ crawled_text' = t
    /\ text_origin' = "manual"
    /\ message' = "none"
    /\ ForgetAnalysis
    /\ UNCHANGED <<pc, input_mode, url_input>> /\ UNCHANGED crawl_vars

\* lines 202-206: the user edits the URL field
TypeUrl(u) ==
    /\ pc = "idle"
    /\ input_mode = "url"
    /\ url_input' = u
    /\ message' = "none"
    /\ ForgetAnalysis
    /\ UNCHANGED <<pc, input_mode, text_input, crawled_text, text_origin>>
    /\ UNCHANGED crawl_vars

\* lines 207-212, no URL typed
ClickCrawlNoUrl ==
    /\ pc = "idle"
    /\ input_mode = "url"
    /\ url_input = [scheme |-> "", rest |-> ""]
    /\ message' = "warn_no_url"
    /\ ForgetAnalysis
    /\ UNCHANGED <<pc, input_mode, url_input, text_input, crawled_text, text_origin>>
    /\ UNCHANGED crawl_vars

\* lines 207-210 and 32-47: crawl_webpage is entered
ClickCrawl ==
    /\ pc = "idle"
    /\ input_mode = "url"
    /\ url_input # [scheme |-> "", rest |-> ""]
    /\ pc' = "get"
    /\ UNCHANGED <<retry, get_log, response, exc, enc_idx, content, soup>>
    /\ message' = IF CompleteUrl(url_input) # url_input THEN "warn_protocol" ELSE "none"
    /\ ForgetAnalysis
    /\ UNCHANGED <<input_mode, url_input, text_input, crawled_text, text_origin,
                   ret, crawl_status>>

\* lines 47-60: one pass of the retry loop
GetAttempt ==
    /\ pc = "get"
    /\ retry < Attempts
    /\ \E o \in GetOutcomes :
         /\ get_log' = Append(get_log, [url |-> CompleteUrl(url_input), outcome |-> o])
         /\ IF o = "ok"
            THEN /\ \E r \in Responses : response' = r
                 /\ enc_idx' = 1
                 /\ pc' = "decode"
                 /\ UNCHANGED <<retry, exc>>
            ELSE IF LastRetry(retry)
                 THEN /\ exc' = o
                      /\ pc' = "except"
                      /\ UNCHANGED <<retry, response, enc_idx>>
                 ELSE /\ retry' = retry + 1
                      /\ UNCHANGED <<pc, exc, response, enc_idx>>
    /\ UNCHANGED <<input_mode, url_input, text_input, crawled_text, text_origin,
                   content, soup, ret, message, crawl_status, jieba_dict,
                   lcut_calls, analysed, cleaned, recleaned, words, word_count, top_n>>

\* lines 65-72: one pass of the encoding loop
TryEncoding ==
    /\ pc = "decode"
    /\ enc_idx <= Len(encodings)
    /\ LET d == response.decode[enc_idx]
       IN  IF d = "text"
           THEN /\ content' = response.page
                /\ pc' = "extract"
                /\ UNCHANGED enc_idx
           ELSE /\ content' = IF d = "empty" THEN <<>> ELSE content
                /\ enc_idx' = enc_idx + 1
                /\ UNCHANGED pc
    /\ UNCHANGED <<input_mode, url_input, text_input, crawled_text, text_origin,
                   retry, get_log, response, exc, soup, ret, message, crawl_status,
                   jieba_dict, lcut_calls, analysed, cleaned, recleaned, words,
                   word_count, top_n>>

\* line 65: the encodings list is exhausted
EncodingsExhausted ==
    /\ pc = "decode"
    /\ enc_idx > Len(encodings)
    /\ pc' = "extract"
    /\ UNCHANGED <<input_mode, url_input, text_input, crawled_text, text_origin,
                   retry, get_log, response, exc, enc_idx, content, soup, ret,
                   message, crawl_status, jieba_dict, lcut_calls, analysed, cleaned,
                   recleaned, words, word_count, top_n>>

\* lines 74-86: parse, decompose, take the text, store it
ExtractStep ==
    /\ pc = "extract"
    /\ soup' = Decompose(content)
    /\ content' = CollapseWhitespace(GetText(Decompose(content)))
    /\ crawled_text' = CollapseWhitespace(GetText(Decompose(content)))
    /\ text_origin' = "crawl"
    /\ pc' = "preview"
    /\ UNCHANGED <<input_mode, url_input, text_input, retry, get_log, response, exc,
                   enc_idx, ret, message, crawl_status, jieba_dict, lcut_calls,
                   analysed, cleaned, recleaned, words, word_count, top_n>>

\* the locals of crawl_webpage die when it returns
LocalsDropped ==
    /\ retry' = 0
    /\ get_log' = <<>>
    /\ response' = NoResponse
    /\ exc' = "none"
    /\ enc_idx' = 0
    /\ content' = <<>>
    /\ soup' = <<>>

\* lines 89-96: warning or preview, then return content
PreviewStep ==
    /\ pc = "preview"
    /\ message' = IF Len(content) < MIN_VALID_LENGTH THEN "warn_short" ELSE "preview"
    /\ ret' = content
    /\ crawl_status' = "ok"
    /\ pc' = "idle"
    /\ LocalsDropped
    /\ UNCHANGED <<input_mode, url_input, text_input, crawled_text, text_origin,
                   jieba_dict, lcut_calls, analysed, cleaned, recleaned, words,
                   word_count, top_n>>

\* any statement of lines 62-94 raises (a library call, a widget call)
RaiseInside ==
    /\ pc \in {"decode", "extract", "preview"}
    /\ exc' = "Other"
    /\ pc' = "except"
    /\ UNCHANGED <<input_mode, url_input, text_input, crawled_text, text_origin,
                   retry, get_log, response, enc_idx, content, soup, ret, message,
                   crawl_status, jieba_dict, lcut_calls, analysed, cleaned,
                   recleaned, words, word_count, top_n>>

\* lines 98-113: the except clauses
ExceptStep ==
    /\ pc = "except"
    /\ message' = HandlerMessage(exc)
    /\ crawled_text' = HandlerText(crawled_text)
    /\ text_origin' = "except"
    /\ ret' = <<>>
    /\ crawl_status' = "failed"
    /\ pc' = "idle"
    /\ LocalsDropped
    /\ UNCHANGED <<input_mode, url_input, text_input, jieba_dict, lcut_calls,
                   analysed, cleaned, recleaned, words, word_count, top_n>>

\* lines 215-234: the analyze button is enabled and clicked
ClickAnalyze ==
    /\ pc = "idle"
    /\ ~analyze_disabled
    /\ analysed' = [text |-> crawled_text, origin |-> text_origin, ran |-> TRUE]
    /\ LET r == preprocess_text(crawled_text, jieba_dict)
       IN  /\ words' = r.words
           /\ lcut_calls' = r.lcut_calls
           /\ IF r.words = <<>>
              THEN /\ message' = "warn_no_words"
                   /\ word_count' = <<>>
                   /\ top_n' = <<>>
              ELSE /\ message' = "table"
                   /\ word_count' = WordCount(r.words)
                   /\ top_n' = TopWords(WordCount(r.words))
    /\ UNCHANGED <<pc, input_mode, url_input, text_input, crawled_text, text_origin,
                   jieba_dict, cleaned, recleaned>>
    /\ UNCHANGED crawl_vars

Next ==
    \/ \E m \in {"manual", "url"} : SelectMode(m)
    \/ \E t \in ManualTexts : TypeText(t)
    \/ \E u \in Urls : TypeUrl(u)
    \/ ClickCrawlNoUrl
    \/ ClickCrawl
    \/ GetAttempt
    \/ TryEncoding
    \/ EncodingsExhausted
    \/ ExtractStep
    \/ PreviewStep
    \/ RaiseInside
    \/ ExceptStep
    \/ ClickAnalyze

Spec == Init /\ [][Next]_vars

----------------------------------------------------------------------------
(* Properties                                                              *)

\* C1: the minimum-length gate is a hard gate: a crawled text of fewer than
\* MIN_VALID_LENGTH characters is never handed to the segmenter, in the
\* crawl's run or at any later analyze click.
MinLengthGateIsHard ==
    (analysed.ran /\ analysed.origin = "crawl"
        /\ Len(analysed.text) < MIN_VALID_LENGTH)
    => lcut_calls = <<>>

\* C2: after a failed crawl the stored text and the returned value are the
\* empty string and the analyze button is disabled, whatever had been
\* stored before the exception was raised.
FetchFailureHalts ==
    /\ text_origin = "except" =>
          /\ crawled_text = <<>>
          /\ ret = <<>>
          /\ crawl_status = "failed"
          /\ analyze_disabled
    /\ (pc = "idle" /\ crawl_status = "failed") => ret = <<>>

FailedCrawlSeen ==
    /\ pc = "idle"
    /\ text_origin = "except"
    /\ crawl_status = "failed"
    /\ message = "err_other"

\* C3: at most two GET attempts per crawl; an attempt is made only if all
\* earlier ones failed; a GET failure reaches the except clauses only after
\* the second attempt failed, and it is that attempt's error.
RetryPolicy ==
    /\ Len(get_log) <= Attempts
    /\ \A i \in 1..(Len(get_log) - 1) : get_log[i].outcome # "ok"
    /\ pc = "get" => Len(get_log) = retry
    /\ pc \in {"decode", "extract", "preview"} =>
          /\ get_log # <<>>
          /\ get_log[Len(get_log)].outcome = "ok"
    /\ (pc = "except" /\ response = NoResponse) =>
          /\ Len(get_log) = Attempts
          /\ get_log[1].outcome \in GetFailures
          /\ exc = get_log[Attempts].outcome

SecondAttemptFailed ==
    /\ pc = "except"
    /\ response = NoResponse
    /\ Len(get_log) = 2
    /\ get_log[1].outcome = "Timeout"
    /\ exc = "ConnectionError"

\* C4: when the encoding loop is left for the extraction, some candidate
\* has produced a non-empty decode and it is the first such candidate; if
\* every candidate fails, the crawl does not go on to the extraction.
EncodingResolution ==
    pc = "extract" =>
        /\ enc_idx \in 1..Len(encodings)
        /\ response.decode[enc_idx] = "text"
        /\ \A j \in 1..(enc_idx - 1) : response.decode[j] # "text"

\* C5: cleaning an already cleaned text returns it unchanged.
NormalizerIdempotent == pc = "recleaned" => recleaned = cleaned

\* text holds, from position i on, four consecutive copies of a block of k
FourCopiesAt(text, i, k) ==
    /\ i + 4 * k - 1 <= Len(text)
    /\ \A d \in 0..(3 * k - 1) : text[i + d] = text[i + d + k]

\* C6: the cleaned text holds no block of 2 to 5 characters repeated four
\* or more times in a row.
RepeatsCollapsed ==
    pc = "cleaned" =>
        \A i \in 1..Len(cleaned) : \A k \in 2..5 : ~FourCopiesAt(cleaned, i, k)

\* the distinct tokens of a token list
TokensOf(tokens) == {tokens[i] : i \in DOMAIN tokens}

\* entry a ranks strictly before entry b for the token list tokens
Outranks(tokens, a, b) ==
    \/ a.count > b.count
    \/ /\ a.count = b.count
       /\ FirstIndex(tokens, a.token) < FirstIndex(tokens, b.token)

\* table is the first n entries of the ranking of tokens: counts are the
\* occurrences, order is count descending then first appearance
IsRanking(table, tokens, n) ==
    /\ Len(table) = Min(n, Cardinality(TokensOf(tokens)))
    /\ \A r \in DOMAIN table :
          /\ table[r].token \in TokensOf(tokens)
          /\ table[r].count = Cardinality({i \in DOMAIN tokens : tokens[i] = table[r].token})
    /\ \A r \in 1..(Len(table) - 1) : Outranks(tokens, table[r], table[r + 1])
    /\ \A t \in TokensOf(tokens) \ {table[r].token : r \in DOMAIN table} :
          \A r \in DOMAIN table :
              Outranks(tokens, table[r],
                       [token |-> t,
                        count |-> Cardinality({i \in DOMAIN tokens : tokens[i] = t})])

\* C7 as stated: the table is the top TopN of the ranking of the whole
\* token list.
RankingOfAllTokens == pc = "table" => IsRanking(top_n, words, TopN)

\* C7: the table is the top TopN of the ranking of the first MaxTokens
\* tokens; A B A C B A gives (A,3), (B,2), (C,1).
RankingOfCappedTokens ==
    /\ pc = "table" => IsRanking(top_n, Take(words, MaxTokens), TopN)
    /\ (pc = "table" /\ words = AggExample) =>
          top_n = <<[token |-> Word(1), count |-> 3],
                    [token |-> Word(2), count |-> 2],
                    [token |-> Word(3), count |-> 1]>>

TruncatedRankingSeen ==
    /\ pc = "table"
    /\ Len(word_count) > TopN
    /\ Len(top_n) = TopN
    /\ top_n[1].token # words[1]
    /\ top_n[2].count = top_n[3].count

RECURSIVE SumCounts(_)
SumCounts(entries) ==
    IF entries = <<>> THEN 0 ELSE Head(entries).count + SumCounts(Tail(entries))

\* C8 as stated: the counts of the untruncated table add up to the number
\* of tokens returned by the filter step.
CountConservation ==
    pc = "table" =>
        /\ SumCounts(word_count) = Len(words)
        /\ \A r \in DOMAIN word_count : word_count[r].count >= 1

\* C8: the counts of the untruncated table add up to the number of tokens
\* returned by the filter step, capped at MaxTokens; every count is >= 1.
CappedCountConservation ==
    pc = "table" =>
        /\ SumCounts(word_count) = Min(Len(words), MaxTokens)
        /\ \A r \in DOMAIN word_count : word_count[r].count >= 1

CapReached ==
    /\ pc = "table"
    /\ Len(words) > MaxTokens
    /\ Len(word_count) = 1

\* a word of whitespace only (or of nothing)
Blank(word) == \A i \in DOMAIN word : word[i] \in Whitespace

\* ws is seg without its stop words, its words shorter than MinTokenLen
\* and its blank words, in the order of seg
IsFiltered(ws, seg) ==
    LET kept == {i \in DOMAIN seg :
                    seg[i] \notin stop_words /\ Len(seg[i]) >= 2 /\ ~Blank(seg[i])}
    IN  /\ Len(ws) = Cardinality(kept)
        /\ \A j \in DOMAIN ws :
              \E i \in kept :
                  /\ Cardinality({m \in kept : m < i}) = j - 1
                  /\ ws[j] = seg[i]

RuleText(doc, Matches(_)) ==
    Strip(Join([i \in DOMAIN SelectSeq(doc, Matches) |->
                   Strip(SelectSeq(doc, Matches)[i].text)], <<"NL">>))

\* the text chosen by the rule cascade: content-like class or id, then
\* article/main, then the p elements, then the whole page
CascadeText(doc) ==
    LET r1 == RuleText(doc, LAMBDA e : e.content_like)
        r2 == RuleText(doc, LAMBDA e : e.tag \in {"article", "main"})
        r3 == RuleText(doc, LAMBDA e : e.tag = "p")
        r4 == RuleText(doc, LAMBDA e : TRUE)
    IN  IF r1 # <<>> THEN r1 ELSE IF r2 # <<>> THEN r2 ELSE IF r3 # <<>> THEN r3 ELSE r4

\* C10: the extracted text is the text of the first rule of the cascade
\* that gives non-empty text, the matched elements joined with newlines.
ExtractionCascade == pc = "preview" => content = CascadeText(soup)

====
